---- MODULE Spec2Model ----
(***************************************************************************)
(* A model of CxxStringView (src/src/cxx_string_view.rs): the Rust binding  *)
(* to a C++ std::string_view.  A view is two machine words of storage that  *)
(* the foreign runtime fills in (data pointer, length); every accessor asks *)
(* the foreign runtime for them and reads memory through as_bytes().        *)
(*                                                                         *)
(* Memory is a flat sequence of bytes; a pointer is a number.  Strings are  *)
(* sequences of bytes (a Rust str is its UTF-8 encoding).                   *)
(***************************************************************************)
EXTENDS Integers, Sequences, FiniteSets, TLC

VARIABLES
    mem,     \* the bytes of memory that have been allocated, in address order
    bufs,    \* the byte buffers that exist: Rust slices and C++ strings
    views,   \* the CxxStringView values that exist (their foreign storage)
    ret      \* the last operation called and the value it returned

vars == <<mem, bufs, views, ret>>

(***************************************************************************)
(* Bounds of the model.                                                     *)
(***************************************************************************)
MaxLen == 2        \* longest byte buffer drawn from the small alphabets
MaxBufs == 1       \* buffers allocated in the construction specification
MaxUtf8Len == 4    \* longest input of the UTF-8 specification

(***************************************************************************)
(* Pointers.                                                                *)
(***************************************************************************)
\* The null pointer, as tested by data.is_null().
NULL == 0

\* core::ptr::NonNull::<u8>::dangling(): the alignment of u8 as an address.
Dangling == 1

\* The address of the i-th allocated byte of memory.
Addr(i) == Dangling + i

\* The sequences over S of length at most n.
SeqsUpTo(S, n) == UNION {[1..k -> S] : k \in 0..n}

Min(a, b) == IF a <= b THEN a ELSE b

(***************************************************************************)
(* The foreign runtime: cxxbridge1$cxx_string_view$init / data / length.    *)
(* The storage of a view is the pair std::string_view keeps.                *)
(***************************************************************************)
string_view_init(data, length) == [data |-> data, len |-> length]

string_view_data(this) == this.data

string_view_length(this) == this.len

\* A default-constructed std::string_view handed over by C++: null, size 0.
foreign_default_view == string_view_init(NULL, 0)

(***************************************************************************)
(* Construction.                                                            *)
(***************************************************************************)
\* A Rust slice is a (pointer, length) pair; slice.as_ptr() and slice.len().
Slice(ptr, length) == [ptr |-> ptr, len |-> length]

from_raw_parts(data, length) == string_view_init(data, length)

\* Faulty variant of new: the last byte of the slice is left out.
new_truncated(slice) ==
    from_raw_parts(slice.ptr, IF slice.len > 0 THEN slice.len - 1 ELSE 0)

new(slice) ==
    LET data == slice.ptr
        length == slice.len
    IN  from_raw_parts(data, length)

\* The slice &[] : no bytes, a dangling non-null pointer.
EmptySlice == Slice(Dangling, 0)

empty == new(EmptySlice)

(***************************************************************************)
(* Accessors.                                                               *)
(***************************************************************************)
\* Faulty variant of len: the terminating NUL is counted.
len_with_nul(self) == string_view_length(self) + 1

len(self) == string_view_length(self)

\* Faulty variant of is_empty: a null pointer is tested, not the length.
is_empty_by_ptr(self) == string_view_data(self) = NULL

is_empty(self) == len(self) = 0

as_ptr(self) == string_view_data(self)

\* debug_assert_eq!(len, 0), evaluated only on the null branch of as_bytes.
debug_assert_holds(self) == as_ptr(self) # NULL \/ len(self) = 0

\* Faulty variant of as_bytes: the foreign pointer is used as it is.
as_bytes_unchecked(self) == Slice(as_ptr(self), len(self))

as_bytes(self) ==
    LET data == as_ptr(self)
        length == len(self)
        data2 == IF data # NULL THEN data ELSE Dangling
    IN  Slice(data2, length)

\* The bytes a slice denotes: slice::from_raw_parts read through memory.
SliceBytes(s) == [i \in 1..s.len |-> mem[(s.ptr - Dangling) + (i - 1)]]

(***************************************************************************)
(* UTF-8 validation: core::str::from_utf8, as to_str() calls it.            *)
(* Indices are zero-based as in the code; v[i + 1] is the code's v[i].      *)
(***************************************************************************)
\* core::str::validations::utf8_char_width (the UTF8_CHAR_WIDTH table).
utf8_char_width(b) ==
    IF b < 128 THEN 1
    ELSE IF b >= 194 /\ b <= 223 THEN 2
    ELSE IF b >= 224 /\ b <= 239 THEN 3
    ELSE IF b >= 240 /\ b <= 244 THEN 4
    ELSE 0

\* A continuation byte: (b as i8) < -64, that is b & 0xC0 == 0x80.
is_cont(b) == b >= 128 /\ b <= 191

\* The match on (first, second) for a three-byte sequence.
second_ok3(first, second) ==
    \/ first = 224 /\ second >= 160 /\ second <= 191
    \/ first >= 225 /\ first <= 236 /\ second >= 128 /\ second <= 191
    \/ first = 237 /\ second >= 128 /\ second <= 159
    \/ first >= 238 /\ first <= 239 /\ second >= 128 /\ second <= 191

\* The match on (first, second) for a four-byte sequence.
second_ok4(first, second) ==
    \/ first = 240 /\ second >= 144 /\ second <= 191
    \/ first >= 241 /\ first <= 243 /\ second >= 128 /\ second <= 191
    \/ first = 244 /\ second >= 128 /\ second <= 143

\* Utf8Error { valid_up_to, error_len }; error_len 0 stands for None.
Utf8Error(valid_up_to, error_len) ==
    [ok |-> FALSE, valid_up_to |-> valid_up_to, error_len |-> error_len]

\* run_utf8_validation from position index: Ok, or the first error.
RECURSIVE run_utf8_validation(_, _)
run_utf8_validation(v, index) ==
    IF index >= Len(v) THEN [ok |-> TRUE]
    ELSE
      LET old_offset == index
          first == v[index + 1]
          has(i) == i < Len(v)
          at(i) == v[i + 1]
          err(n) == Utf8Error(old_offset, n)
          w == utf8_char_width(first)
      IN  IF first < 128 THEN run_utf8_validation(v, index + 1)
          ELSE IF w = 2 THEN
                 IF ~has(index + 1) THEN err(0)
                 ELSE IF ~is_cont(at(index + 1)) THEN err(1)
                 ELSE run_utf8_validation(v, index + 2)
          ELSE IF w = 3 THEN
                 IF ~has(index + 1) THEN err(0)
                 ELSE IF ~second_ok3(first, at(index + 1)) THEN err(1)
                 ELSE IF ~has(index + 2) THEN err(0)
                 ELSE IF ~is_cont(at(index + 2)) THEN err(2)
                 ELSE run_utf8_validation(v, index + 3)
          ELSE IF w = 4 THEN
                 IF ~has(index + 1) THEN err(0)
                 ELSE IF ~second_ok4(first, at(index + 1)) THEN err(1)
                 ELSE IF ~has(index + 2) THEN err(0)
                 ELSE IF ~is_cont(at(index + 2)) THEN err(2)
                 ELSE IF ~has(index + 3) THEN err(0)
                 ELSE IF ~is_cont(at(index + 3)) THEN err(3)
                 ELSE run_utf8_validation(v, index + 4)
          ELSE err(1)

\* str::from_utf8(slice): Ok(the same memory as a str) or Err(Utf8Error).
from_utf8(s) ==
    LET r == run_utf8_validation(SliceBytes(s), 0)
    IN  IF r.ok THEN [ok |-> TRUE, str |-> s] ELSE r

\* Faulty variant of to_str: the bytes are not validated.
to_str_unchecked(self) == [ok |-> TRUE, str |-> as_bytes(self)]

\* Faulty variant of to_str: only ASCII is accepted.
to_str_ascii_only(self) ==
    LET v == SliceBytes(as_bytes(self))
        bad == {i \in 1..Len(v) : v[i] >= 128}
    IN  IF bad = {} THEN [ok |-> TRUE, str |-> as_bytes(self)]
        ELSE Utf8Error((CHOOSE i \in bad : \A j \in bad : i <= j) - 1, 1)

to_str(self) == from_utf8(as_bytes(self))

(***************************************************************************)
(* Lossy conversion: String::from_utf8_lossy over <[u8]>::utf8_chunks.      *)
(***************************************************************************)
\* U+FFFD REPLACEMENT CHARACTER, in UTF-8.
REPLACEMENT == <<239, 191, 189>>

\* safe_get(xs, i): the byte at i, or 0 past the end.
safe_get(xs, i) == IF i < Len(xs) THEN xs[i + 1] ELSE 0

\* The scan of Utf8Chunks::next: the loop from position i with valid_up_to,
\* ending in the pair (i, valid_up_to) at the break or at the end of source.
RECURSIVE utf8_chunk_scan(_, _, _)
utf8_chunk_scan(source, i, valid_up_to) ==
    IF i >= Len(source) THEN [i |-> i, valid_up_to |-> valid_up_to]
    ELSE
      LET byte == source[i + 1]
          i1 == i + 1
          w == utf8_char_width(byte)
          brk(j) == [i |-> j, valid_up_to |-> valid_up_to]
      IN  IF byte < 128 THEN utf8_chunk_scan(source, i1, i1)
          ELSE IF w = 2 THEN
                 IF ~is_cont(safe_get(source, i1)) THEN brk(i1)
                 ELSE utf8_chunk_scan(source, i1 + 1, i1 + 1)
          ELSE IF w = 3 THEN
                 IF ~second_ok3(byte, safe_get(source, i1)) THEN brk(i1)
                 ELSE IF ~is_cont(safe_get(source, i1 + 1)) THEN brk(i1 + 1)
                 ELSE utf8_chunk_scan(source, i1 + 2, i1 + 2)
          ELSE IF w = 4 THEN
                 IF ~second_ok4(byte, safe_get(source, i1)) THEN brk(i1)
                 ELSE IF ~is_cont(safe_get(source, i1 + 1)) THEN brk(i1 + 1)
                 ELSE IF ~is_cont(safe_get(source, i1 + 2)) THEN brk(i1 + 2)
                 ELSE utf8_chunk_scan(source, i1 + 3, i1 + 3)
          ELSE brk(i1)

\* Utf8Chunks::next on a non-empty source: the chunk and what remains.
utf8_chunks_next(source) ==
    LET e == utf8_chunk_scan(source, 0, 0)
    IN  [valid |-> SubSeq(source, 1, e.valid_up_to),
         invalid |-> SubSeq(source, e.valid_up_to + 1, e.i),
         remaining |-> SubSeq(source, e.i + 1, Len(source))]

\* The loop "for chunk in iter" of from_utf8_lossy, appending to res.
RECURSIVE lossy_push_chunks(_, _)
lossy_push_chunks(res, source) ==
    IF source = <<>> THEN res
    ELSE LET chunk == utf8_chunks_next(source)
             res1 == res \o chunk.valid
             res2 == IF chunk.invalid # <<>> THEN res1 \o REPLACEMENT ELSE res1
         IN  lossy_push_chunks(res2, chunk.remaining)

\* String::from_utf8_lossy(slice): Cow::Borrowed(str) or Cow::Owned(String).
from_utf8_lossy(s) ==
    LET v == SliceBytes(s)
    IN  IF v = <<>> THEN [cow |-> "Borrowed", str |-> EmptySlice]
        ELSE LET chunk == utf8_chunks_next(v)
             IN  IF chunk.invalid = <<>>
                 THEN [cow |-> "Borrowed", str |-> Slice(s.ptr, Len(chunk.valid))]
                 ELSE [cow |-> "Owned",
                       string |-> lossy_push_chunks(chunk.valid \o REPLACEMENT,
                                                    chunk.remaining)]

\* Faulty variant of to_string_lossy: the text is always copied.
to_string_lossy_owned(self) ==
    LET r == from_utf8_lossy(as_bytes(self))
    IN  IF r.cow = "Owned" THEN r
        ELSE [cow |-> "Owned", string |-> SliceBytes(r.str)]

to_string_lossy(self) == from_utf8_lossy(as_bytes(self))

(***************************************************************************)
(* Comparison and hashing of byte slices (core::slice), on their contents.  *)
(***************************************************************************)
\* <[u8] as PartialEq>::eq: equal lengths, then the bytes compared.
slice_eq(a, b) ==
    IF Len(a) # Len(b) THEN FALSE
    ELSE \A i \in 1..Len(a) : a[i] = b[i]

\* <[u8] as Ord>::cmp: the common prefix compared, then the lengths.
RECURSIVE slice_cmp_from(_, _, _)
slice_cmp_from(a, b, i) ==
    IF i > Min(Len(a), Len(b))
    THEN IF Len(a) < Len(b) THEN "Less"
         ELSE IF Len(a) > Len(b) THEN "Greater"
         ELSE "Equal"
    ELSE IF a[i] < b[i] THEN "Less"
    ELSE IF a[i] > b[i] THEN "Greater"
    ELSE slice_cmp_from(a, b, i + 1)

slice_cmp(a, b) == slice_cmp_from(a, b, 1)

\* <[u8] as Hash>::hash: the length prefix, then the bytes, fed to the hasher.
slice_hash(a, state) == state \o <<Len(a)>> \o a

\* CxxString::as_bytes: the string's data and size as a slice.
cxx_string_as_bytes(c) == Slice(c.ptr, c.len)

\* CxxString::to_string_view: a std::string_view of the string's data and size.
to_string_view(c) == string_view_init(c.ptr, c.len)

\* self.as_bytes(), dereferenced.
Bytes(self) == SliceBytes(as_bytes(self))

\* Faulty variant of eq: the views are compared by pointer and length.
eq_by_identity(self, other) ==
    /\ string_view_data(self) = string_view_data(other)
    /\ string_view_length(self) = string_view_length(other)

\* impl PartialEq for CxxStringView
eq(self, other) == slice_eq(Bytes(self), Bytes(other))

\* Faulty variant of eq_str_view: only the common prefix is compared.
eq_str_view_prefix(s, other) ==
    \A i \in 1..Min(Len(s), Len(Bytes(other))) : s[i] = Bytes(other)[i]

\* impl PartialEq<CxxStringView> for str (s is the str's bytes)
eq_str_view(s, other) == slice_eq(s, Bytes(other))

\* Faulty variant of eq_view_str: only the common prefix is compared.
eq_view_str_prefix(self, s) ==
    \A i \in 1..Min(Len(Bytes(self)), Len(s)) : Bytes(self)[i] = s[i]

\* impl PartialEq<str> for CxxStringView
eq_view_str(self, s) == slice_eq(Bytes(self), s)

\* impl PartialEq<CxxStringView> for CxxString
eq_cxxstring_view(c, other) ==
    slice_eq(SliceBytes(cxx_string_as_bytes(c)), Bytes(other))

\* impl PartialEq<CxxString> for CxxStringView
eq_view_cxxstring(self, c) ==
    slice_eq(Bytes(self), SliceBytes(cxx_string_as_bytes(c)))

\* Faulty variant of cmp: shorter contents first, then the bytes.
cmp_len_first(self, other) ==
    IF len(self) < len(other) THEN "Less"
    ELSE IF len(self) > len(other) THEN "Greater"
    ELSE slice_cmp(Bytes(self), Bytes(other))

\* impl Ord for CxxStringView
cmp(self, other) == slice_cmp(Bytes(self), Bytes(other))

\* impl PartialOrd for CxxStringView: Some(ordering)
partial_cmp(self, other) == <<"Some", slice_cmp(Bytes(self), Bytes(other))>>

\* PartialOrd::lt and gt, as the operators < and > use partial_cmp.
lt(self, other) == partial_cmp(self, other) = <<"Some", "Less">>

gt(self, other) == partial_cmp(self, other) = <<"Some", "Greater">>

\* impl Hash for CxxStringView: what the hasher is fed, after state.
hash(self, state) == slice_hash(Bytes(self), state)

(***************************************************************************)
(* Inputs.                                                                  *)
(***************************************************************************)
\* "A string from C++", the text of tests/cxx_string_view.rs.
Scenario ==
    <<65, 32, 115, 116, 114, 105, 110, 103, 32, 102, 114, 111, 109, 32, 67, 43, 43>>

\* Byte slices handed to new(): bytes 0x00 and 'a'.
SliceInputs == SeqsUpTo({0, 97}, MaxLen)

\* Texts held by C++ strings.
CxxLiterals == {Scenario, <<>>}

\* Plain texts a view is compared with.
StrLiterals == {Scenario, <<65>>}

\* Contents compared with each other: bytes 'a' and 'b'.
CmpInputs == SeqsUpTo({97, 98}, MaxLen)

\* Plain texts compared with those contents.
StrInputs == {<<>>, <<97>>, <<98>>, <<97, 98>>}

\* Inputs of the UTF-8 conversions: 'A', continuation bytes 0x80 and 0xA0,
\* the lead bytes 0xC2, 0xE0, 0xED, 0xF0, 0xF4 and the bytes 0xFE, 0xFF.
Utf8Alphabet == {65, 128, 160, 194, 224, 237, 240, 244, 254, 255}

Utf8Inputs == SeqsUpTo(Utf8Alphabet, MaxUtf8Len)

(***************************************************************************)
(* Buffers: allocation by the caller and by C++.                            *)
(***************************************************************************)
\* A Rust byte buffer with content b; an empty one has a dangling pointer.
RustBuf(b, at) ==
    [kind |-> "slice", ptr |-> IF b = <<>> THEN Dangling ELSE at,
     len |-> Len(b), bytes |-> b]

\* A C++ std::string with content s, stored with its terminating NUL.
CxxBuf(s, at) == [kind |-> "cxxstring", ptr |-> at, len |-> Len(s), bytes |-> s]

BufSlice(k) == Slice(bufs[k].ptr, bufs[k].len)

Ret(op, self, arg, val) == [op |-> op, self |-> self, arg |-> arg, val |-> val]

None == "None"

\* The caller creates a byte buffer.
AllocSlice(b) ==
    /\ Len(bufs) < MaxBufs
    /\ mem' = mem \o b
    /\ bufs' = Append(bufs, RustBuf(b, Addr(Len(mem) + 1)))
    /\ ret' = Ret("alloc", None, Len(bufs) + 1, None)
    /\ UNCHANGED views

\* let_cxx_string!(s = ...): C++ creates a std::string.
LetCxxString(s) ==
    /\ Len(bufs) < MaxBufs
    /\ mem' = mem \o s \o <<0>>
    /\ bufs' = Append(bufs, CxxBuf(s, Addr(Len(mem) + 1)))
    /\ ret' = Ret("let_cxx_string", None, Len(bufs) + 1, None)
    /\ UNCHANGED views

(***************************************************************************)
(* Constructors of views.                                                   *)
(***************************************************************************)
NewCall(k) ==
    /\ bufs[k].kind = "slice"
    /\ views' = views \cup {new(BufSlice(k))}
    /\ ret' = Ret("new", new(BufSlice(k)), k, new(BufSlice(k)))
    /\ UNCHANGED <<mem, bufs>>

EmptyCall ==
    /\ views' = views \cup {empty}
    /\ ret' = Ret("empty", empty, None, empty)
    /\ UNCHANGED <<mem, bufs>>

ToStringViewCall(k) ==
    /\ bufs[k].kind = "cxxstring"
    /\ views' = views \cup {to_string_view(bufs[k])}
    /\ ret' = Ret("to_string_view", to_string_view(bufs[k]), k,
                  to_string_view(bufs[k]))
    /\ UNCHANGED <<mem, bufs>>

\* C++ hands over a default-constructed std::string_view.
ForeignDefaultCall ==
    /\ views' = views \cup {foreign_default_view}
    /\ ret' = Ret("foreign_default", foreign_default_view, None,
                  foreign_default_view)
    /\ UNCHANGED <<mem, bufs>>

(***************************************************************************)
(* Calls of the accessors: none changes memory or a view.                   *)
(***************************************************************************)
Returns(op, self, arg, val) ==
    /\ ret' = Ret(op, self, arg, val)
    /\ UNCHANGED <<mem, bufs, views>>

LenCall(v) == Returns("len", v, None, len(v))

IsEmptyCall(v) == Returns("is_empty", v, None, is_empty(v))

AsPtrCall(v) == Returns("as_ptr", v, None, as_ptr(v))

\* as_bytes panics when the debug assertion fails.
AsBytesCall(v) ==
    Returns("as_bytes", v, None,
            IF debug_assert_holds(v) THEN as_bytes(v) ELSE [panic |-> TRUE])

ToStrCall(v) == Returns("to_str", v, None, to_str(v))

ToStringLossyCall(v) == Returns("to_string_lossy", v, None, to_string_lossy(v))

EqCall(x, y) == Returns("eq", x, y, eq(x, y))

EqStrViewCall(s, v) == Returns("eq_str_view", v, s, eq_str_view(s, v))

EqViewStrCall(v, s) == Returns("eq_view_str", v, s, eq_view_str(v, s))

EqCxxStringViewCall(k, v) ==
    /\ bufs[k].kind = "cxxstring"
    /\ Returns("eq_cxxstring_view", v, k, eq_cxxstring_view(bufs[k], v))

EqViewCxxStringCall(v, k) ==
    /\ bufs[k].kind = "cxxstring"
    /\ Returns("eq_view_cxxstring", v, k, eq_view_cxxstring(v, bufs[k]))

CmpCall(x, y) == Returns("cmp", x, y, cmp(x, y))

PartialCmpCall(x, y) == Returns("partial_cmp", x, y, partial_cmp(x, y))

LtCall(x, y) == Returns("lt", x, y, lt(x, y))

GtCall(x, y) == Returns("gt", x, y, gt(x, y))

HashCall(x) == Returns("hash", x, None, hash(x, <<>>))

(***************************************************************************)
(* Spec: construction and the raw accessors, from an empty program.         *)
(***************************************************************************)
Init ==
    /\ mem = <<>>
    /\ bufs = <<>>
    /\ views = {}
    /\ ret = Ret("start", None, None, None)

Next ==
    \/ \E b \in SliceInputs : AllocSlice(b)
    \/ \E s \in CxxLiterals : LetCxxString(s)
    \/ \E k \in 1..Len(bufs) : NewCall(k)
    \/ EmptyCall
    \/ \E k \in 1..Len(bufs) : ToStringViewCall(k)
    \/ ForeignDefaultCall
    \/ \E v \in views : LenCall(v)
    \/ \E v \in views : IsEmptyCall(v)
    \/ \E v \in views : AsPtrCall(v)
    \/ \E v \in views : AsBytesCall(v)
    \/ \E v \in views : ToStrCall(v)
    \/ \E v \in views : ToStringLossyCall(v)
    \/ \E v \in views, s \in StrLiterals : EqViewStrCall(v, s)

Spec == Init /\ [][Next]_vars

(***************************************************************************)
(* SpecUtf8: to_str and to_string_lossy on a view over any input.           *)
(***************************************************************************)
InitUtf8 ==
    \E b \in Utf8Inputs :
        /\ mem = b
        /\ bufs = <<RustBuf(b, Addr(1))>>
        /\ views = {new(Slice(RustBuf(b, Addr(1)).ptr, Len(b)))}
        /\ ret = Ret("new", new(Slice(RustBuf(b, Addr(1)).ptr, Len(b))), 1,
                     new(Slice(RustBuf(b, Addr(1)).ptr, Len(b))))

NextUtf8 ==
    \/ \E v \in views : ToStrCall(v)
    \/ \E v \in views : ToStringLossyCall(v)

SpecUtf8 == InitUtf8 /\ [][NextUtf8]_vars

(***************************************************************************)
(* SpecEq and SpecOrd: comparisons and hashing of views over Rust buffers    *)
(* and a C++ string, with a default-constructed view beside them.           *)
(***************************************************************************)
InitCmp ==
    \E b1 \in CmpInputs, b2 \in CmpInputs, s \in StrInputs :
        LET r1 == RustBuf(b1, Addr(1))
            r2 == RustBuf(b2, Addr(Len(b1) + 1))
            c3 == CxxBuf(s, Addr(Len(b1) + Len(b2) + 1))
        IN  /\ mem = b1 \o b2 \o s \o <<0>>
            /\ bufs = <<r1, r2, c3>>
            /\ views = {new(Slice(r1.ptr, r1.len)), new(Slice(r2.ptr, r2.len)),
                        to_string_view(c3), foreign_default_view}
            /\ ret = Ret("start", None, None, None)

NextEq ==
    \/ \E x \in views, y \in views : EqCall(x, y)
    \/ \E x \in views : HashCall(x)
    \/ \E v \in views, s \in StrInputs : EqStrViewCall(s, v)
    \/ \E v \in views, s \in StrInputs : EqViewStrCall(v, s)
    \/ \E v \in views, k \in 1..Len(bufs) : EqCxxStringViewCall(k, v)
    \/ \E v \in views, k \in 1..Len(bufs) : EqViewCxxStringCall(v, k)

SpecEq == InitCmp /\ [][NextEq]_vars

InitOrd ==
    \E b1 \in CmpInputs, b2 \in CmpInputs :
        LET r1 == RustBuf(b1, Addr(1))
            r2 == RustBuf(b2, Addr(Len(b1) + 1))
        IN  /\ mem = b1 \o b2
            /\ bufs = <<r1, r2>>
            /\ views = {new(Slice(r1.ptr, r1.len)), new(Slice(r2.ptr, r2.len)),
                        foreign_default_view}
            /\ ret = Ret("start", None, None, None)

NextOrd ==
    \/ \E x \in views, y \in views : CmpCall(x, y)
    \/ \E x \in views, y \in views : PartialCmpCall(x, y)
    \/ \E x \in views, y \in views : LtCall(x, y)
    \/ \E x \in views, y \in views : GtCall(x, y)
    \/ \E x \in views, y \in views : EqCall(x, y)

SpecOrd == InitOrd /\ [][NextOrd]_vars

(***************************************************************************)
(* Reference notions the properties are stated with.                        *)
(***************************************************************************)
\* The bytes a view denotes: memory from its data pointer for its length.
Content(v) == [i \in 1..v.len |-> mem[(v.data - Dangling) + (i - 1)]]

\* The view whose storage is exactly buffer k's pointer and length.
ViewOver(k) == [data |-> bufs[k].ptr, len |-> bufs[k].len]

\* Well-formed UTF-8 byte sequences (Unicode, Table 3-7): one row per form,
\* each row the allowed range of every byte.
Utf8Table ==
    { <<<<0, 127>>>>,
      <<<<194, 223>>, <<128, 191>>>>,
      <<<<224, 224>>, <<160, 191>>, <<128, 191>>>>,
      <<<<225, 236>>, <<128, 191>>, <<128, 191>>>>,
      <<<<237, 237>>, <<128, 159>>, <<128, 191>>>>,
      <<<<238, 239>>, <<128, 191>>, <<128, 191>>>>,
      <<<<240, 240>>, <<144, 191>>, <<128, 191>>, <<128, 191>>>>,
      <<<<241, 243>>, <<128, 191>>, <<128, 191>>, <<128, 191>>>>,
      <<<<244, 244>>, <<128, 143>>, <<128, 191>>, <<128, 191>>>> }

Matches(c, row, n) == \A i \in 1..n : c[i] >= row[i][1] /\ c[i] <= row[i][2]

\* c is the encoding of one character.
WellFormed(c) == \E row \in Utf8Table : Len(row) = Len(c) /\ Matches(c, row, Len(c))

\* p is a proper, non-empty start of the encoding of some character.
StartsWellFormed(p) ==
    /\ Len(p) >= 1
    /\ \E row \in Utf8Table : Len(p) < Len(row) /\ Matches(p, row, Len(p))

Drop(b, n) == SubSeq(b, n + 1, Len(b))

\* b is the concatenation of encodings of characters.
RECURSIVE ValidUtf8(_)
ValidUtf8(b) ==
    \/ b = <<>>
    \/ \E n \in 1..Min(4, Len(b)) :
          WellFormed(SubSeq(b, 1, n)) /\ ValidUtf8(Drop(b, n))

\* The index (from 0) of the first byte that is not part of valid text: the
\* length of the longest valid prefix.
FirstInvalidIndex(b) ==
    CHOOSE k \in 0..Len(b) :
        /\ ValidUtf8(SubSeq(b, 1, k))
        /\ \A j \in (k + 1)..Len(b) : ~ValidUtf8(SubSeq(b, 1, j))

\* The length of the maximal subpart of the ill-formed sequence b starts with:
\* the longest start of a well-formed encoding, or one byte.
MaximalSubpart(b) ==
    LET S == {n \in 1..Min(3, Len(b)) : StartsWellFormed(SubSeq(b, 1, n))}
    IN  IF S = {} THEN 1 ELSE CHOOSE n \in S : \A m \in S : m <= n

\* Lossy decoding by substitution of maximal subparts.
RECURSIVE LossyText(_)
LossyText(b) ==
    IF b = <<>> THEN <<>>
    ELSE IF \E n \in 1..Min(4, Len(b)) : WellFormed(SubSeq(b, 1, n))
    THEN LET n == CHOOSE n \in 1..Min(4, Len(b)) : WellFormed(SubSeq(b, 1, n))
         IN  SubSeq(b, 1, n) \o LossyText(Drop(b, n))
    ELSE REPLACEMENT \o LossyText(Drop(b, MaximalSubpart(b)))

\* a is before b in the lexicographic order of byte strings.
LexLess(a, b) ==
    \E i \in 1..(Min(Len(a), Len(b)) + 1) :
        /\ \A j \in 1..(i - 1) : a[j] = b[j]
        /\ \/ i = Len(a) + 1 /\ i <= Len(b)
           \/ i <= Min(Len(a), Len(b)) /\ a[i] < b[i]

LexOrder(a, b) ==
    IF LexLess(a, b) THEN "Less" ELSE IF LexLess(b, a) THEN "Greater" ELSE "Equal"

\* The bytes of memory every buffer accounts for (a C++ string with its NUL).
RECURSIVE Footprint(_)
Footprint(k) ==
    IF k = 0 THEN 0
    ELSE Footprint(k - 1) + bufs[k].len
         + (IF bufs[k].kind = "cxxstring" THEN 1 ELSE 0)

(***************************************************************************)
(* Properties of to_str and to_string_lossy, under SpecUtf8.                *)
(***************************************************************************)
\* The buffer the view ret.self was built over.
InputOfSelf == bufs[1].bytes

\* C3: for every byte slice b that is not valid UTF-8, new(b).to_str() is an
\* error, never Ok, and the error's offset (valid_up_to) is the index of the
\* first invalid byte of b; for b = [0xFF, 0xFE] the offset is 0.
C3_ToStrErrorOffset ==
    (ret.op = "to_str" /\ ~ValidUtf8(InputOfSelf)) =>
        /\ ret.val.ok = FALSE
        /\ ret.val.valid_up_to = FirstInvalidIndex(InputOfSelf)
        /\ (InputOfSelf = <<255, 254>> => ret.val.valid_up_to = 0)

\* to_str has failed on 'A' followed by an encoded surrogate, at offset 1.
C3_Witness ==
    /\ ret.op = "to_str"
    /\ InputOfSelf = <<65, 237, 160, 128>>
    /\ ret.val.ok = FALSE
    /\ ret.val.valid_up_to = 1

\* C4: for every byte slice b that is valid UTF-8 text t (the empty slice
\* included), new(b).to_str() is Ok(t), and t has exactly the bytes of b.
C4_ToStrOk ==
    (ret.op = "to_str" /\ ValidUtf8(InputOfSelf)) =>
        /\ ret.val.ok = TRUE
        /\ ret.val.str.len = Len(InputOfSelf)
        /\ SliceBytes(ret.val.str) = InputOfSelf

\* to_str has returned Ok on a four-byte character.
C4_Witness ==
    /\ ret.op = "to_str"
    /\ InputOfSelf = <<240, 160, 128, 128>>
    /\ ret.val.ok = TRUE
    /\ SliceBytes(ret.val.str) = <<240, 160, 128, 128>>

\* C5: to_string_lossy() always returns a text: for valid UTF-8 input the
\* exact text, borrowed; for invalid input an owned string in which every
\* maximal invalid subpart is replaced by one U+FFFD and every valid sequence
\* is kept in order; [0xFF, 0xFE] gives two replacement characters.
C5_ToStringLossy ==
    ret.op = "to_string_lossy" =>
        IF ValidUtf8(InputOfSelf)
        THEN /\ ret.val.cow = "Borrowed"
             /\ SliceBytes(ret.val.str) = InputOfSelf
        ELSE /\ ret.val.cow = "Owned"
             /\ ret.val.string = LossyText(InputOfSelf)
             /\ (InputOfSelf = <<255, 254>> =>
                    ret.val.string = REPLACEMENT \o REPLACEMENT)

\* to_string_lossy has replaced the two-byte start of a three-byte character
\* by a single U+FFFD and kept the 'A' that follows.
C5_Witness ==
    /\ ret.op = "to_string_lossy"
    /\ InputOfSelf = <<224, 160, 65>>
    /\ ret.val.cow = "Owned"
    /\ ret.val.string = REPLACEMENT \o <<65>>

(***************************************************************************)
(* Properties of construction and the raw accessors, under Spec.            *)
(***************************************************************************)
\* C1: for every byte slice b (the empty slice and slices with zero bytes
\* included) new(b) records exactly b's start pointer and length through the
\* foreign init call and copies no bytes, and new(b).as_bytes() has the
\* length of b and is byte for byte equal to b.
C1_NewAsBytes ==
    /\ ret.op = "new" =>
          /\ string_view_data(ret.val) = bufs[ret.arg].ptr
          /\ string_view_length(ret.val) = Len(bufs[ret.arg].bytes)
          /\ Len(mem) = Footprint(Len(bufs))
    /\ \A k \in 1..Len(bufs) :
          (ret.op = "as_bytes" /\ bufs[k].kind = "slice" /\ ret.self = ViewOver(k)) =>
              /\ "panic" \notin DOMAIN ret.val
              /\ ret.val.len = Len(bufs[k].bytes)
              /\ ret.val.ptr = bufs[k].ptr
              /\ SliceBytes(ret.val) = bufs[k].bytes

\* as_bytes has been called on a view built by new over 'a' and a zero byte.
C1_Witness ==
    /\ ret.op = "as_bytes"
    /\ Len(bufs) >= 1
    /\ bufs[1].kind = "slice"
    /\ bufs[1].bytes = <<97, 0>>
    /\ ret.self = ViewOver(1)
    /\ SliceBytes(ret.val) = <<97, 0>>

\* The view taken over C++ string k.
IsViewOfString(v, k) ==
    /\ bufs[k].kind = "cxxstring"
    /\ string_view_data(v) = bufs[k].ptr

\* C2, as stated: a view taken over the foreign text "A string from C++" is
\* equal to the plain text "A string from C++", and len() reports 18.
C2_Original ==
    \A k \in 1..Len(bufs) :
        (/\ ret.op \in {"len", "eq_view_str"}
         /\ IsViewOfString(ret.self, k)
         /\ bufs[k].bytes = Scenario) =>
            /\ (ret.op = "eq_view_str" /\ ret.arg = Scenario) => ret.val = TRUE
            /\ ret.op = "len" => ret.val = 18

\* C2, amended: a view taken over the foreign text "A string from C++" is
\* equal to the plain text "A string from C++" (and to no other text), and
\* len() reports 17, the number of bytes of that text, as it does for every
\* view that compares equal to that text.
C2_ScenarioLen17 ==
    /\ \A k \in 1..Len(bufs) :
          (/\ ret.op \in {"len", "eq_view_str"}
           /\ IsViewOfString(ret.self, k)
           /\ bufs[k].bytes = Scenario) =>
              /\ (ret.op = "eq_view_str" /\ ret.arg = Scenario) => ret.val = TRUE
              /\ (ret.op = "eq_view_str" /\ ret.arg # Scenario) => ret.val = FALSE
              /\ ret.op = "len" => ret.val = 17
    /\ (ret.op = "len" /\ eq_view_str(ret.self, Scenario)) => ret.val = 17

\* len() has been called on the view over "A string from C++".
C2_Witness ==
    /\ ret.op = "len"
    /\ Len(bufs) >= 1
    /\ bufs[1].bytes = Scenario
    /\ IsViewOfString(ret.self, 1)
    /\ ret.self \in views

\* C9: empty() is a view with len() = 0, is_empty() = TRUE and no bytes,
\* whether or not the data pointer the foreign runtime stores is null; and
\* is_empty() is TRUE exactly when len() = 0.
C9_Empty ==
    /\ ret.op = "empty" =>
          /\ len(ret.val) = 0
          /\ is_empty(ret.val) = TRUE
          /\ as_bytes(ret.val).len = 0
    /\ ret.op = "is_empty" => (ret.val = TRUE <=> string_view_length(ret.self) = 0)
    /\ ret.op = "len" => ret.val = string_view_length(ret.self)
    /\ \A v \in views : is_empty(v) <=> len(v) = 0

\* is_empty() has answered TRUE on an empty view whose pointer is not null.
C9_Witness ==
    /\ ret.op = "is_empty"
    /\ empty \in views
    /\ ret.self = empty
    /\ string_view_data(ret.self) # NULL
    /\ ret.val = TRUE

C6_EqByContent ==
    /\ \A x \in views : eq(x, x)
    /\ \A x \in views, y \in views :
          /\ eq(x, y) <=> eq(y, x)
          /\ eq(x, y) <=> Content(x) = Content(y)
          /\ Content(x) = Content(y) => hash(x, <<>>) = hash(y, <<>>)
          /\ \A z \in views : (eq(x, y) /\ eq(y, z)) => eq(x, z)
    /\ ret.op = "eq" => ret.val = (Content(ret.self) = Content(ret.arg))
    /\ ret.op = "hash" =>
          ret.val = <<Len(Content(ret.self))>> \o Content(ret.self)

\* eq has answered TRUE for two views with different data pointers over the
\* same, non-empty bytes.
C6_Witness ==
    /\ ret.op = "eq"
    /\ string_view_data(ret.self) # string_view_data(ret.arg)
    /\ Content(ret.self) = Content(ret.arg)
    /\ Len(Content(ret.self)) = MaxLen
    /\ ret.val = TRUE

\* C7: a view v and a str s are equal, in either direction, exactly when the
\* bytes of v are the bytes of s; a view v and a CxxString c are equal, in
\* either direction, exactly when their bytes are the same.
C7_CrossTypeEq ==
    /\ \A v \in views, s \in StrInputs :
          /\ eq_view_str(v, s) <=> Content(v) = s
          /\ eq_str_view(s, v) <=> Content(v) = s
    /\ \A v \in views, k \in 1..Len(bufs) :
          bufs[k].kind = "cxxstring" =>
              /\ eq_view_cxxstring(v, bufs[k]) <=> Content(v) = bufs[k].bytes
              /\ eq_cxxstring_view(bufs[k], v) <=> Content(v) = bufs[k].bytes
    /\ ret.op \in {"eq_view_str", "eq_str_view"} =>
          ret.val = (Content(ret.self) = ret.arg)
    /\ ret.op \in {"eq_view_cxxstring", "eq_cxxstring_view"} =>
          ret.val = (Content(ret.self) = bufs[ret.arg].bytes)

\* A CxxString has compared equal to a view over a Rust buffer with its bytes.
C7_Witness ==
    /\ ret.op = "eq_cxxstring_view"
    /\ string_view_data(ret.self) # bufs[ret.arg].ptr
    /\ Content(ret.self) = <<97, 98>>
    /\ ret.val = TRUE

(***************************************************************************)
(* Properties of ordering, under SpecOrd.                                   *)
(***************************************************************************)
\* C8: the order of views is the lexicographic order of their bytes, a total
\* order consistent with equality: exactly one of x < y, x == y, x > y holds,
\* cmp is Equal exactly when x == y, partial_cmp is Some(cmp), a proper
\* prefix is less than the longer view, and new(b"a") < new(b"b").
C8_LexOrder ==
    /\ \A x \in views, y \in views :
          /\ cmp(x, y) = LexOrder(Content(x), Content(y))
          /\ partial_cmp(x, y) = <<"Some", cmp(x, y)>>
          /\ cmp(x, y) = "Equal" <=> eq(x, y)
          /\ Cardinality({r \in {"lt", "eq", "gt"} :
                \/ r = "lt" /\ lt(x, y)
                \/ r = "eq" /\ eq(x, y)
                \/ r = "gt" /\ gt(x, y)}) = 1
          /\ (Len(Content(x)) < Len(Content(y))
              /\ Content(x) = SubSeq(Content(y), 1, Len(Content(x)))) => lt(x, y)
          /\ (Content(x) = <<97>> /\ Content(y) = <<98>>) => lt(x, y)
    /\ ret.op = "cmp" => ret.val = LexOrder(Content(ret.self), Content(ret.arg))
    /\ ret.op = "partial_cmp" =>
          ret.val = <<"Some", LexOrder(Content(ret.self), Content(ret.arg))>>
    /\ ret.op = "lt" => ret.val = LexLess(Content(ret.self), Content(ret.arg))
    /\ ret.op = "gt" => ret.val = LexLess(Content(ret.arg), Content(ret.self))

\* new(b"a") < new(b"b") has been evaluated and is TRUE.
C8_Witness ==
    /\ ret.op = "lt"
    /\ Content(ret.self) = <<97>>
    /\ Content(ret.arg) = <<98>>
    /\ ret.val = TRUE

====
